---------------------------- MODULE Spec2Model ----------------------------
(***************************************************************************)
(* A model of the request-dispatch core of flick-web/dispatch: the route   *)
(* registry, API.Call (route match, pre-request hooks, reflective handler  *)
(* invocation, result normalisation, panic recovery) and the two           *)
(* transport adapters HTTPProxy and LambdaProxy.                           *)
(*                                                                         *)
(* Go strings are modelled as sequences of one-character strings, so that  *)
(* splitting a path into segments is computed and not assumed.             *)
(***************************************************************************)
EXTENDS Integers, Sequences, FiniteSets, TLC

VARIABLES
    Endpoints,  \* API.Endpoints: the registry, in registration order
    calls,      \* per caller: the position and locals of its API.Call / proxy request
    probe,      \* one application of PathMatcher.Match: its inputs and its result
    root        \* the context the callers of API.Call pass in, shared by them

vars == <<Endpoints, calls, probe, root>>

(***************************************************************************)
(* Bounds of the model.                                                    *)
(***************************************************************************)
\* Longest registry built by AddEndpoint
MaxEndpoints == 2
\* Longest request path (in characters) fed to PathMatcher.Match
MaxPathLen == 4
\* Longest registry asked for the methods of a path
MaxRoutes == 3

(***************************************************************************)
(* Strings                                                                 *)
(***************************************************************************)
GET == <<"G", "E", "T">>
PUT == <<"P", "U", "T">>
OPTIONS == <<"O", "P", "T", "I", "O", "N", "S">>
DELETE == <<"D", "E", "L", "E", "T", "E">>

MinOf(S) == CHOOSE x \in S : \A y \in S : x <= y

\* strings.Split(s, "/")
RECURSIVE Split(_)
Split(s) ==
    LET idx == {i \in 1..Len(s) : s[i] = "/"}
    IN  IF idx = {} THEN <<s>>
        ELSE LET i == MinOf(idx)
             IN  <<SubSeq(s, 1, i - 1)>> \o Split(SubSeq(s, i + 1, Len(s)))

(***************************************************************************)
(* Route pattern and path matcher                                          *)
(***************************************************************************)
\* PathVars: a map from variable name to matched segment
NoPathVars == <<>>

\* One segment of a registration string: {name} is a variable, the rest literal
Segment(s) ==
    IF Len(s) >= 2 /\ s[1] = "{" /\ s[Len(s)] = "}"
    THEN [kind |-> "variable", value |-> SubSeq(s, 2, Len(s) - 1)]
    ELSE [kind |-> "literal", value |-> s]

\* Parse "METHOD/segment/{name}/..." into a method token and path segments
NewPathMatcher(pattern) ==
    LET idx == {i \in 1..Len(pattern) : pattern[i] = "/"}
        cut == IF idx = {} THEN Len(pattern) + 1 ELSE MinOf(idx)
        segs == Split(SubSeq(pattern, cut, Len(pattern)))
    IN  [Method |-> SubSeq(pattern, 1, cut - 1),
         segments |-> [i \in 1..Len(segs) |-> Segment(segs[i])]]

\* The positional comparison of Match, from position i on, with the bindings so far
RECURSIVE MatchFrom(_, _, _, _)
MatchFrom(segments, parts, i, bound) ==
    IF i > Len(segments) THEN [pathVars |-> bound, match |-> TRUE]
    ELSE IF segments[i].kind = "literal"
         THEN IF segments[i].value = parts[i]
              THEN MatchFrom(segments, parts, i + 1, bound)
              ELSE [pathVars |-> NoPathVars, match |-> FALSE]
         ELSE IF parts[i] # <<>>
              THEN MatchFrom(segments, parts, i + 1,
                             (segments[i].value :> parts[i]) @@ bound)
              ELSE [pathVars |-> NoPathVars, match |-> FALSE]

\* PathMatcher.MatchPath: the segment-shape test, ignoring the method
MatchSegments(pm, path) ==
    LET parts == Split(path)
    IN  IF Len(parts) # Len(pm.segments)
        THEN [pathVars |-> NoPathVars, match |-> FALSE]
        ELSE MatchFrom(pm.segments, parts, 1, NoPathVars)

MatchPath(pm, path) == MatchSegments(pm, path).match

\* A matcher that tests only the path (a plausible slip: the method ignored)
MatchIgnoringMethod(pm, method, path) == MatchSegments(pm, path)

\* PathMatcher.Match(method, path) -> (PathVars, matched)
Match(pm, method, path) ==
    IF method # pm.Method
    THEN [pathVars |-> NoPathVars, match |-> FALSE]
    ELSE MatchSegments(pm, path)


(***************************************************************************)
(* Go values.  An interface value is a record: its dynamic type t, whether *)
(* it holds a nil pointer, an identity/text id and (for *APIError) a code. *)
(***************************************************************************)
\* The nil interface value
NilIface == [t |-> "nil", isNil |-> TRUE, id |-> "", code |-> 0]

\* errors.New(text): a distinct non-nil error
ErrorString(text) == [t |-> "*errorString", isNil |-> FALSE, id |-> text, code |-> 0]

ErrBadRequest == ErrorString("bad request")
ErrNotFound == ErrorString("path not found")
ErrInternal == ErrorString("internal error")

\* NewAPIError(statusCode, errorText)
NewAPIError(statusCode, errorText) ==
    [t |-> "*APIError", isNil |-> FALSE, id |-> errorText, code |-> statusCode]

\* The error json.Unmarshal returns for a truncated or empty body
SyntaxError ==
    [t |-> "*json.SyntaxError", isNil |-> FALSE, id |-> "unexpected end of JSON input", code |-> 0]

\* A non-error data value of dynamic type t
Data(t, id) == [t |-> t, isNil |-> FALSE, id |-> id, code |-> 0]

\* A non-nil interface holding a nil pointer of type t
TypedNil(t) == [t |-> t, isNil |-> TRUE, id |-> "", code |-> 0]

\* The dynamic types whose method set has Error() string
ImplementsError(v) == v.t \in {"*errorString", "*APIError", "*json.SyntaxError"}

\* Declared result types that are interface types
IsInterfaceType(decl) == decl \in {"error", "interface{}"}

\* reflect.Value of a handler result: the declared type, null or not, the value
RV(decl, null, val) == [decl |-> decl, null |-> null, val |-> val]

\* reflect.Value.Interface(): a null of an interface type is the nil interface,
\* a null of a pointer type is a non-nil interface holding a typed nil pointer
Interface(rv) ==
    IF rv.null
    THEN IF IsInterfaceType(rv.decl) THEN NilIface ELSE TypedNil(rv.decl)
    ELSE rv.val

\* What a handler can return in a result of declared type decl
ResultsOf(decl) ==
    CASE decl = "error" ->
            {RV(decl, TRUE, NilIface),
             RV(decl, FALSE, ErrorString("PANICKING")),
             RV(decl, FALSE, NewAPIError(418, "I'm a teapot"))}
      [] decl = "interface{}" ->
            {RV(decl, TRUE, NilIface),
             RV(decl, FALSE, Data("string", "OK")),
             RV(decl, FALSE, Data("chan", "ch"))}
      [] decl = "*APIError" ->
            {RV(decl, TRUE, NilIface),
             RV(decl, FALSE, NewAPIError(418, "I'm a teapot"))}
      [] decl = "*T" ->
            {RV(decl, TRUE, NilIface),
             RV(decl, FALSE, Data("*T", "t"))}
      [] OTHER ->
            {RV(decl, FALSE, Data("string", "OK"))}

\* All result tuples of a handler with declared results outs
RECURSIVE ResultTuples(_)
ResultTuples(outs) ==
    IF outs = <<>> THEN {<<>>}
    ELSE {<<r>> \o rest : r \in ResultsOf(Head(outs)), rest \in ResultTuples(Tail(outs))}

\* json.Marshal(output) fails on values with no JSON form
MarshalFails(v) == v.t = "chan"

(***************************************************************************)
(* Panics.  A panic carries a runtime.Error, an explicit non-nil value, or *)
(* nil (panic(nil)).                                                       *)
(***************************************************************************)
NoPanic == "none"
PanicValues == {"runtimeError", "explicit", "nil"}

\* What recover() returns for a pending panic: panic(nil) reads back as nil
\* or as a *runtime.PanicNilError, depending on the toolchain's panicnil setting
RecoverValues(p) ==
    CASE p = NoPanic -> {"nil"}
      [] p = "nil" -> {"nil", "PanicNilError"}
      [] OTHER -> {p}

(***************************************************************************)
(* Context: a chain of (key, value) bindings; deriving a child appends a   *)
(* binding and leaves the parent as it was.                                *)
(***************************************************************************)
Background == <<>>

WithValue(ctx, key, pv, s) == Append(ctx, [key |-> key, pv |-> pv, s |-> s])

\* ctx.Value(key): the most recently derived binding for key, if any
HasValue(ctx, key) == \E i \in 1..Len(ctx) : ctx[i].key = key
Value(ctx, key) ==
    ctx[CHOOSE i \in 1..Len(ctx) :
            /\ ctx[i].key = key
            /\ \A j \in (i + 1)..Len(ctx) : ctx[j].key # key]

\* A derivation that overwrites nothing useful (a plausible slip: vars dropped)
SetContextPathVarsDropped(ctx, pathVars) == WithValue(ctx, "contextPathVars", NoPathVars, "")

SetContextPathVars(ctx, pathVars) == WithValue(ctx, "contextPathVars", pathVars, "")

ContextPathVars(ctx) ==
    IF HasValue(ctx, "contextPathVars")
    THEN Value(ctx, "contextPathVars").pv
    ELSE NoPathVars

SetContextLambdaRequest(ctx, req) == WithValue(ctx, "contextLambdaRequest", NoPathVars, req)

SetContextLambdaResponse(ctx, res) == WithValue(ctx, "contextLambdaResponse", NoPathVars, res)

(***************************************************************************)
(* Handlers, hooks and endpoints                                           *)
(***************************************************************************)
\* A handler value: a func with declared parameter kinds and result types,
\* a nil interface, or a value that is not a func
Func(name, ins, outs) == [kind |-> "func", name |-> name, in |-> ins, out |-> outs]
NilHandler == [kind |-> "nil", name |-> "nil", in |-> <<>>, out |-> <<>>]
NotAFunc == [kind |-> "string", name |-> "notAFunc", in |-> <<>>, out |-> <<>>]

\* The handlers of endpoint_test.go and example/main.go
testEndpointHandler == Func("testEndpointHandler", <<"custom">>, <<"error">>)
testBadHandler == Func("testBadHandler", <<"custom", "custom">>, <<"interface{}", "error">>)
testPathVarHandler == Func("testPathVarHandler", <<"ctx", "custom">>, <<"interface{}", "error">>)
testAPIErrors == Func("testAPIErrors", <<>>, <<"*APIError">>)
rootHandler == Func("rootHandler", <<"ctx">>, <<"string">>)

\* Further handler shapes Call has a branch for
OtherHandlers ==
    {NilHandler, NotAFunc,
     Func("noResult", <<>>, <<>>),
     Func("inputFirst", <<"custom", "ctx">>, <<"interface{}">>),
     Func("twoContexts", <<"ctx", "ctx">>, <<"string">>),
     Func("threeParams", <<"ctx", "custom", "custom">>, <<"error">>),
     Func("threeResults", <<>>, <<"string", "string", "error">>),
     Func("pointerData", <<>>, <<"*T">>),
     Func("codedPair", <<>>, <<"string", "*APIError">>),
     Func("notAnErrorPair", <<>>, <<"string", "string">>)}

Handlers ==
    {testEndpointHandler, testBadHandler, testPathVarHandler, testAPIErrors, rootHandler}
        \cup OtherHandlers

\* Endpoint: the registration string, its matcher, the handler and the hooks
Endpoint(pattern, handler, hooks) ==
    [Path |-> pattern, Handler |-> handler, PreRequestHooks |-> hooks,
     pathMatcher |-> NewPathMatcher(pattern)]

\* MatchEndpoint: the index of the first endpoint from i on whose matcher matches
\* (0: none), with its bindings
RECURSIVE MatchEndpointFrom(_, _, _, _)
MatchEndpointFrom(eps, i, method, path) ==
    IF i > Len(eps) THEN [endpoint |-> 0, pathVars |-> NoPathVars]
    ELSE LET r == Match(eps[i].pathMatcher, method, path)
         IN  IF r.match THEN [endpoint |-> i, pathVars |-> r.pathVars]
             ELSE MatchEndpointFrom(eps, i + 1, method, path)

\* A scan that keeps the last match (a plausible slip: no early return)
RECURSIVE MatchEndpointLast(_, _, _)
MatchEndpointLast(eps, method, path) ==
    IF eps = <<>> THEN [endpoint |-> 0, pathVars |-> NoPathVars]
    ELSE LET n == Len(eps)
             r == Match(eps[n].pathMatcher, method, path)
         IN  IF r.match THEN [endpoint |-> n, pathVars |-> r.pathVars]
             ELSE MatchEndpointLast(SubSeq(eps, 1, n - 1), method, path)

MatchEndpoint(eps, method, path) == MatchEndpointFrom(eps, 1, method, path)

\* A listing that names each method once (a plausible slip: the list built
\* as a set of methods)
RECURSIVE GetMethodsDeduplicated(_, _)
GetMethodsDeduplicated(eps, path) ==
    IF eps = <<>> THEN <<>>
    ELSE LET n == Len(eps)
             before == GetMethodsDeduplicated(SubSeq(eps, 1, n - 1), path)
             method == eps[n].pathMatcher.Method
         IN  IF /\ MatchPath(eps[n].pathMatcher, path)
                /\ \A k \in 1..Len(before) : before[k] # method
             THEN Append(before, method)
             ELSE before

\* GetMethodsForPath: the method of every endpoint whose shape matches, in order
RECURSIVE GetMethodsForPath(_, _)
GetMethodsForPath(eps, path) ==
    IF eps = <<>> THEN <<>>
    ELSE (IF MatchPath(Head(eps).pathMatcher, path)
          THEN <<Head(eps).pathMatcher.Method>> ELSE <<>>)
         \o GetMethodsForPath(Tail(eps), path)

(***************************************************************************)
(* API.Call                                                                *)
(***************************************************************************)
\* The callers that may be inside API.Call
Callers == {1, 2}

\* The locals of one caller before it calls anything
IdleCall ==
    [pc |-> "idle", via |-> "Call",
     reqMethod |-> <<>>, reqPath |-> <<>>,
     method |-> <<>>, path |-> <<>>, ctx |-> Background, input |-> "nil",
     endpoint |-> 0, pathVars |-> NoPathVars, hook |-> 1,
     takesContext |-> FALSE, takesCustom |-> FALSE, ctxIndex |-> 0, customIndex |-> 0,
     resultValues |-> <<>>, decodeFailed |-> FALSE,
     out |-> NilIface, err |-> NilIface, panic |-> NoPanic, escaped |-> FALSE,
     trace |-> <<>>, called |-> FALSE, abortedBy |-> 0, inspected |-> FALSE,
     status |-> 0, allowMethods |-> <<>>, allowAgain |-> <<>>,
     reqInput |-> "nil", reps |-> <<>>]

\* One entry of a call's trace: a hook or the handler was invoked with these values
Event(ev, i, name, method, path, ctx, input) ==
    [ev |-> ev, i |-> i, name |-> name, method |-> method, path |-> path,
     ctx |-> ctx, input |-> input]

\* return out, err: the named results are set and the deferred function runs next
Return(c, out, err) == [c EXCEPT !.out = out, !.err = err, !.pc = "deferred"]

\* A panic unwinds to the deferred function; the named results stay as they are
Panic(c, v) == [c EXCEPT !.panic = v, !.pc = "deferred"]

\* A Call that dereferences the nil endpoint when none matched (a plausible
\* slip: the nil test left out)
CallEnterWithoutNilCheck(c, eps, ctx, method, path, input) ==
    LET m == MatchEndpoint(eps, method, path)
        c1 == [c EXCEPT !.reqMethod = method, !.reqPath = path, !.reqInput = input,
                        !.method = method, !.path = path, !.input = input,
                        !.ctx = ctx, !.called = TRUE]
    IN  IF m.endpoint = 0
        THEN Panic(c1, "runtimeError")
        ELSE [c1 EXCEPT !.endpoint = m.endpoint, !.pathVars = m.pathVars,
                        !.ctx = SetContextPathVars(ctx, m.pathVars),
                        !.hook = 1, !.pc = "hooks"]

\* Call, lines 240-244: the route match, ErrNotFound, or the derived context
CallEnter(c, eps, ctx, method, path, input) ==
    LET m == MatchEndpoint(eps, method, path)
        c1 == [c EXCEPT !.reqMethod = method, !.reqPath = path, !.reqInput = input,
                        !.method = method, !.path = path, !.input = input,
                        !.ctx = ctx, !.called = TRUE]
    IN  IF m.endpoint = 0
        THEN Return(c1, NilIface, ErrNotFound)
        ELSE [c1 EXCEPT !.endpoint = m.endpoint, !.pathVars = m.pathVars,
                        !.ctx = SetContextPathVars(ctx, m.pathVars),
                        !.hook = 1, !.pc = "hooks"]

\* The error a hook returns when it aborts the call
HookError(name) == ErrorString(name)

\* The EndpointInput values a hook may hand back in place of the one it got
Replacements(c) ==
    {[Method |-> c.method, Path |-> c.path, Ctx |-> c.ctx, Input |-> c.input],
     [Method |-> c.method, Path |-> c.path,
      Ctx |-> WithValue(c.ctx, "claims", NoPathVars, "user"), Input |-> c.input],
     [Method |-> c.method, Path |-> c.path,
      Ctx |-> WithValue(Background, "claims", NoPathVars, "user"), Input |-> c.input],
     [Method |-> PUT, Path |-> <<"/", "a">>, Ctx |-> c.ctx, Input |-> "rewritten"]}

\* What one invocation of a hook can do
HookOutcomes(c) ==
    {[kind |-> "continue", rep |-> r, panic |-> NoPanic] : r \in Replacements(c)}
        \cup {[kind |-> k, rep |-> <<>>, panic |-> NoPanic] : k \in {"abort", "nilnil"}}
        \cup {[kind |-> "panic", rep |-> <<>>, panic |-> v] : v \in PanicValues}

\* A loop body that goes on to the next hook after an error (a plausible slip)
HookStepIgnoringError(c, name, o) ==
    LET c1 == [c EXCEPT !.trace = Append(@, Event("hook", c.hook, name, c.method,
                                                   c.path, c.ctx, c.input)),
                        !.hook = @ + 1]
    IN  CASE o.kind = "continue" ->
                [c1 EXCEPT !.method = o.rep.Method, !.path = o.rep.Path,
                           !.ctx = o.rep.Ctx, !.input = o.rep.Input]
          [] o.kind = "abort" -> [c1 EXCEPT !.abortedBy = c.hook]
          [] o.kind = "nilnil" -> Panic(c1, "runtimeError")
          [] OTHER -> Panic(c1, o.panic)

\* A loop body that matches the replacement's method and path again and goes
\* on with the endpoint and bindings found (a plausible slip: routing redone
\* after a hook)
HookStepRematching(c, name, o) ==
    LET c1 == [c EXCEPT !.trace = Append(@, Event("hook", c.hook, name, c.method,
                                                   c.path, c.ctx, c.input))]
    IN  CASE o.kind = "continue" ->
                LET m == MatchEndpoint(Endpoints, o.rep.Method, o.rep.Path)
                    c2 == [c1 EXCEPT !.method = o.rep.Method, !.path = o.rep.Path,
                                     !.ctx = o.rep.Ctx, !.input = o.rep.Input,
                                     !.reps = Append(@, o.rep), !.hook = @ + 1]
                IN  IF m.endpoint = 0
                    THEN Return(c2, NilIface, ErrNotFound)
                    ELSE [c2 EXCEPT !.endpoint = m.endpoint, !.pathVars = m.pathVars,
                                    !.ctx = SetContextPathVars(o.rep.Ctx, m.pathVars)]
          [] o.kind = "abort" ->
                [Return(c1, NilIface, HookError(name)) EXCEPT !.abortedBy = c.hook]
          [] o.kind = "nilnil" -> Panic(c1, "runtimeError")
          [] OTHER -> Panic(c1, o.panic)

\* A loop body that takes the method, path and body of the replacement but
\* keeps its own context (a plausible slip: ctx = modifiedInput.Ctx left out)
HookStepKeepingContext(c, name, o) ==
    LET c1 == [c EXCEPT !.trace = Append(@, Event("hook", c.hook, name, c.method,
                                                   c.path, c.ctx, c.input))]
    IN  CASE o.kind = "continue" ->
                [c1 EXCEPT !.method = o.rep.Method, !.path = o.rep.Path,
                           !.input = o.rep.Input,
                           !.reps = Append(@, o.rep), !.hook = @ + 1]
          [] o.kind = "abort" ->
                [Return(c1, NilIface, HookError(name)) EXCEPT !.abortedBy = c.hook]
          [] o.kind = "nilnil" -> Panic(c1, "runtimeError")
          [] OTHER -> Panic(c1, o.panic)

\* Call, lines 246-256: one iteration of the PreRequestHooks loop
HookStep(c, name, o) ==
    LET c1 == [c EXCEPT !.trace = Append(@, Event("hook", c.hook, name, c.method,
                                                   c.path, c.ctx, c.input))]
    IN  CASE o.kind = "continue" ->
                [c1 EXCEPT !.method = o.rep.Method, !.path = o.rep.Path,
                           !.ctx = o.rep.Ctx, !.input = o.rep.Input,
                           !.reps = Append(@, o.rep), !.hook = @ + 1]
          [] o.kind = "abort" ->
                [Return(c1, NilIface, HookError(name)) EXCEPT !.abortedBy = c.hook]
          [] o.kind = "nilnil" -> Panic(c1, "runtimeError")
          [] OTHER -> Panic(c1, o.panic)

\* The parameter loop of lines 272-291 from parameter i on: which kinds are
\* taken and where, or a second parameter of a kind
RECURSIVE InspectParams(_, _, _)
InspectParams(ins, i, acc) ==
    IF i > Len(ins) THEN acc
    ELSE IF ins[i] = "ctx"
         THEN IF acc.takesContext THEN [acc EXCEPT !.ok = FALSE]
              ELSE InspectParams(ins, i + 1,
                                 [acc EXCEPT !.takesContext = TRUE, !.ctxIndex = i])
         ELSE IF acc.takesCustom THEN [acc EXCEPT !.ok = FALSE]
              ELSE InspectParams(ins, i + 1,
                                 [acc EXCEPT !.takesCustom = TRUE, !.customIndex = i])

NoParams ==
    [ok |-> TRUE, takesContext |-> FALSE, takesCustom |-> FALSE,
     ctxIndex |-> 0, customIndex |-> 0]

\* An inspection that keeps the last parameter of each kind (a plausible slip:
\* the duplicate tests left out)
InspectAllowingDuplicates(c0, h) ==
    LET c == [c0 EXCEPT !.inspected = TRUE]
    IN
    IF h.kind = "nil" THEN Panic(c, "runtimeError")
    ELSE IF h.kind # "func" THEN Return(c, NilIface, ErrInternal)
    ELSE IF Len(h.in) > 2 THEN Return(c, NilIface, ErrInternal)
    ELSE [c EXCEPT !.takesContext = \E i \in 1..Len(h.in) : h.in[i] = "ctx",
                   !.takesCustom = \E i \in 1..Len(h.in) : h.in[i] = "custom",
                   !.ctxIndex = Len(h.in), !.customIndex = Len(h.in),
                   !.pc = "invoke"]

\* Call, lines 258-293: the handler's type is inspected
Inspect(c0, h) ==
    LET c == [c0 EXCEPT !.inspected = TRUE]
    IN
    IF h.kind = "nil" THEN Panic(c, "runtimeError")
    ELSE IF h.kind # "func" THEN Return(c, NilIface, ErrInternal)
    ELSE IF Len(h.in) > 2 THEN Return(c, NilIface, ErrInternal)
    ELSE LET r == InspectParams(h.in, 1, NoParams)
         IN  IF ~r.ok THEN Return(c, NilIface, ErrInternal)
             ELSE [c EXCEPT !.takesContext = r.takesContext,
                            !.takesCustom = r.takesCustom,
                            !.ctxIndex = r.ctxIndex, !.customIndex = r.customIndex,
                            !.pc = "invoke"]

\* The request bodies: well-formed JSON (as sent, or as a hook rewrote it),
\* truncated JSON, and no body at all
Bodies == {"valid", "truncated", "nil"}

\* json.Unmarshal(input, &v): nil, or the decoder's error
Unmarshal(input) ==
    IF input \in {"valid", "rewritten"} THEN NilIface ELSE SyntaxError

\* What one invocation of handler h can do: panic, or return its declared results
HandlerOutcomes(h) ==
    {[panic |-> NoPanic, results |-> t] : t \in ResultTuples(h.out)}
        \cup {[panic |-> v, results |-> <<>>] : v \in PanicValues}

\* An invocation that does not look at the decoder's error (a plausible slip)
InvokeIgnoringDecodeError(c, h, o) ==
    LET c2 == [c EXCEPT !.trace = Append(@, Event("handler", 0, h.name, c.method, c.path,
                                 IF c.takesContext THEN c.ctx ELSE Background,
                                 IF c.takesCustom THEN c.input ELSE "nil"))]
    IN  IF o.panic # NoPanic THEN Panic(c2, o.panic)
        ELSE [c2 EXCEPT !.resultValues = o.results, !.pc = "normalize"]

\* Call, lines 295-316: the arguments are built, the body decoded, the handler called
Invoke(c, h, o) ==
    LET decodeErr == IF c.takesCustom THEN Unmarshal(c.input) ELSE NilIface
        c1 == [c EXCEPT !.err = IF c.takesCustom THEN decodeErr ELSE @]
        c2 == [c1 EXCEPT !.trace = Append(@, Event("handler", 0, h.name, c.method, c.path,
                                 IF c.takesContext THEN c.ctx ELSE Background,
                                 IF c.takesCustom THEN c.input ELSE "nil"))]
    IN  IF decodeErr # NilIface
        THEN [Return(c1, NilIface, decodeErr) EXCEPT !.decodeFailed = TRUE]
        ELSE IF o.panic # NoPanic THEN Panic(c2, o.panic)
        ELSE [c2 EXCEPT !.resultValues = o.results, !.pc = "normalize"]

\* Call, lines 318-350: the handler's results become (out, err)
Normalize(c) ==
    LET rv == c.resultValues
    IN  CASE Len(rv) = 0 -> Return(c, NilIface, NilIface)
          [] Len(rv) = 1 ->
                LET retval == Interface(rv[1])
                IN  IF retval = NilIface THEN Return(c, NilIface, NilIface)
                    ELSE IF ImplementsError(retval) THEN Return(c, NilIface, retval)
                    ELSE Return(c, retval, NilIface)
          [] Len(rv) = 2 ->
                LET o == Interface(rv[1])
                    errVal == Interface(rv[2])
                IN  IF errVal = NilIface THEN Return(c, o, NilIface)
                    ELSE IF ImplementsError(errVal) THEN Return(c, o, errVal)
                    ELSE Panic([c EXCEPT !.out = o], "runtimeError")
          [] OTHER -> Return(c, NilIface, ErrInternal)

\* Call without its deferred function (a plausible slip: a panic leaves Call)
DeferredWithoutRecover(c, r) ==
    [c EXCEPT !.escaped = (c.panic # NoPanic), !.pc = "returned"]

\* Call, lines 231-238: the deferred function; r is what recover() returned
Deferred(c, r) ==
    IF r # "nil"
    THEN [c EXCEPT !.out = NilIface, !.err = ErrInternal, !.escaped = FALSE,
                   !.pc = "returned"]
    ELSE [c EXCEPT !.escaped = FALSE, !.pc = "returned"]

(***************************************************************************)
(* Transport adapters                                                      *)
(***************************************************************************)
\* err.Error() dereferences its receiver: it panics on a nil *APIError
ErrorTextPanics(err) == err.isNil

\* HTTPProxy, lines 52-69: the response status for Call's (out, err);
\* 0 stands for no response at all (the adapter itself panicked)
HTTPStatus(out, err) ==
    IF err # NilIface
    THEN IF ErrorTextPanics(err) THEN 0
         ELSE IF err = ErrNotFound THEN 404
         ELSE IF err = ErrBadRequest THEN 400
         ELSE 500
    ELSE IF MarshalFails(out) THEN 500 ELSE 200

\* LambdaProxy, lines 113-136: the response status for Call's (out, err)
LambdaStatus(out, err) ==
    IF err # NilIface
    THEN IF ErrorTextPanics(err) THEN 0
         ELSE IF err.t = "*APIError" THEN err.code
         ELSE IF err = ErrNotFound THEN 404
         ELSE IF err = ErrBadRequest THEN 400
         ELSE 500
    ELSE IF MarshalFails(out) THEN 500 ELSE 200

(***************************************************************************)
(* Inputs                                                                  *)
(***************************************************************************)
Methods == {GET, PUT}

RequestPaths == {<<"/", "a">>, <<"/", "a", "/", "x">>, <<"/", "b">>}

\* The registrations the registry is built from
Fixture ==
    {[pattern |-> GET \o <<"/", "a">>, handler |-> testEndpointHandler, hooks |-> <<>>],
     [pattern |-> PUT \o <<"/", "a">>, handler |-> testEndpointHandler, hooks |-> <<>>],
     [pattern |-> GET \o <<"/", "a">>, handler |-> testAPIErrors, hooks |-> <<"authHook">>],
     [pattern |-> GET \o <<"/", "{", "v", "}">>, handler |-> rootHandler,
      hooks |-> <<"middlewareHook">>],
     [pattern |-> GET \o <<"/", "a", "/", "{", "i", "}">>, handler |-> testPathVarHandler,
      hooks |-> <<"middlewareHook", "authHook">>],
     [pattern |-> GET \o <<"/", "{", "v", "}", "/", "x">>, handler |-> testBadHandler,
      hooks |-> <<>>]}

\* The hook lists an endpoint under inspection is registered with
HookLists == {<<>>, <<"middlewareHook">>, <<"middlewareHook", "authHook">>}

(***************************************************************************)
(* Actions                                                                 *)
(***************************************************************************)
\* AddEndpoint(path, handler, hooks...): before any call is served
AddEndpoint(pattern, handler, hooks) ==
    /\ \A p \in Callers : calls[p].pc = "idle"
    /\ Len(Endpoints) < MaxEndpoints
    /\ Endpoints' = Append(Endpoints, Endpoint(pattern, handler, hooks))
    /\ UNCHANGED <<calls, probe, root>>

Register == \E e \in Fixture : AddEndpoint(e.pattern, e.handler, e.hooks)

\* A Call that writes the matched path variables into the context it was
\* given, as Call did when the context was a *Context with a PathVars field
\* (a plausible slip: no child derived); every call holding that context reads
\* the write
CallStartSharingContext(p) ==
    /\ calls[p].pc = "idle"
    /\ \E method \in Methods, path \in RequestPaths, input \in Bodies :
          LET c == CallEnter([calls[p] EXCEPT !.via = "Call"], Endpoints, root,
                             method, path, input)
              shared == IF c.endpoint = 0 THEN root ELSE c.ctx
          IN  /\ root' = shared
              /\ calls' = [q \in Callers |->
                              IF q = p THEN c
                              ELSE IF calls[q].called /\ calls[q].ctx = root
                                   THEN [calls[q] EXCEPT !.ctx = shared]
                                   ELSE calls[q]]
    /\ UNCHANGED <<Endpoints, probe>>

\* A direct api.Call(ctx, method, path, input) from a root context
CallStart(p) ==
    /\ calls[p].pc = "idle"
    /\ \E method \in Methods, path \in RequestPaths, input \in Bodies :
          calls' = [calls EXCEPT ![p] =
                        CallEnter([@ EXCEPT !.via = "Call"], Endpoints, root,
                                  method, path, input)]
    /\ UNCHANGED <<Endpoints, probe, root>>

\* HTTPProxy, lines 23-51: up to its call of api.Call
HTTPProxyBegin(p) ==
    /\ calls[p].pc = "idle"
    /\ \E method \in Methods \cup {OPTIONS}, path \in RequestPaths, input \in Bodies,
          readFails \in BOOLEAN :
          calls' = [calls EXCEPT ![p] =
              LET c == [@ EXCEPT !.via = "HTTPProxy", !.reqMethod = method,
                                 !.reqPath = path]
              IN  IF method = OPTIONS
                  THEN [c EXCEPT !.allowMethods = GetMethodsForPath(Endpoints, path),
                                 !.status = 200, !.pc = "responded"]
                  ELSE IF readFails
                  THEN [c EXCEPT !.status = 500, !.pc = "responded"]
                  ELSE CallEnter(c, Endpoints, Background, method, path, input)]
    /\ UNCHANGED <<Endpoints, probe, root>>

\* HTTPProxy, lines 52-69: api.Call has returned
HTTPProxyEnd(p) ==
    /\ calls[p].pc = "returned"
    /\ calls[p].via = "HTTPProxy"
    /\ calls' = [calls EXCEPT ![p] =
                    [@ EXCEPT !.status = HTTPStatus(calls[p].out, calls[p].err),
                              !.pc = "responded"]]
    /\ UNCHANGED <<Endpoints, probe, root>>

\* LambdaProxy's handler, lines 83-112: up to its call of api.Call
LambdaProxyBegin(p) ==
    /\ calls[p].pc = "idle"
    /\ \E method \in Methods \cup {OPTIONS}, path \in RequestPaths, input \in Bodies :
          calls' = [calls EXCEPT ![p] =
              LET c == [@ EXCEPT !.via = "LambdaProxy", !.reqMethod = method,
                                 !.reqPath = path]
              IN  IF method = OPTIONS
                  THEN [c EXCEPT !.allowMethods = GetMethodsForPath(Endpoints, path),
                                 !.status = 200, !.pc = "responded"]
                  ELSE CallEnter(c, Endpoints,
                                 SetContextLambdaResponse(
                                     SetContextLambdaRequest(Background, "apr"),
                                     "response"),
                                 method, path, input)]
    /\ UNCHANGED <<Endpoints, probe, root>>

\* LambdaProxy's handler, lines 113-136: api.Call has returned
LambdaProxyEnd(p) ==
    /\ calls[p].pc = "returned"
    /\ calls[p].via = "LambdaProxy"
    /\ calls' = [calls EXCEPT ![p] =
                    [@ EXCEPT !.status = LambdaStatus(calls[p].out, calls[p].err),
                              !.pc = "responded"]]
    /\ UNCHANGED <<Endpoints, probe, root>>

\* A direct api.GetMethodsForPath(path)
GetMethods(p) ==
    /\ calls[p].pc = "idle"
    /\ \E path \in RequestPaths :
          calls' = [calls EXCEPT ![p] =
                        [@ EXCEPT !.via = "GetMethodsForPath", !.reqPath = path,
                                  !.allowMethods = GetMethodsForPath(Endpoints, path),
                                  !.pc = "listed"]]
    /\ UNCHANGED <<Endpoints, probe, root>>

\* The same caller asks again for the same path
GetMethodsAgain(p) ==
    /\ calls[p].pc = "listed"
    /\ calls' = [calls EXCEPT ![p] =
                    [@ EXCEPT !.allowAgain = GetMethodsForPath(Endpoints, calls[p].reqPath),
                              !.pc = "relisted"]]
    /\ UNCHANGED <<Endpoints, probe, root>>

\* The matched endpoint of a call
EndpointOf(c) == Endpoints[c.endpoint]

\* One pre-request hook runs
CallHook(p) ==
    /\ calls[p].pc = "hooks"
    /\ calls[p].hook <= Len(EndpointOf(calls[p]).PreRequestHooks)
    /\ \E o \in HookOutcomes(calls[p]) :
          calls' = [calls EXCEPT ![p] =
                        HookStep(@, EndpointOf(@).PreRequestHooks[@.hook], o)]
    /\ UNCHANGED <<Endpoints, probe, root>>

\* The hooks are done: the handler's type is inspected
CallInspect(p) ==
    /\ calls[p].pc = "hooks"
    /\ calls[p].hook > Len(EndpointOf(calls[p]).PreRequestHooks)
    /\ calls' = [calls EXCEPT ![p] = Inspect(@, EndpointOf(@).Handler)]
    /\ UNCHANGED <<Endpoints, probe, root>>

\* The body is decoded and the handler invoked
CallInvoke(p) ==
    /\ calls[p].pc = "invoke"
    /\ \E o \in HandlerOutcomes(EndpointOf(calls[p]).Handler) :
          calls' = [calls EXCEPT ![p] = Invoke(@, EndpointOf(@).Handler, o)]
    /\ UNCHANGED <<Endpoints, probe, root>>

\* The handler's results are normalised
CallNormalize(p) ==
    /\ calls[p].pc = "normalize"
    /\ calls' = [calls EXCEPT ![p] = Normalize(@)]
    /\ UNCHANGED <<Endpoints, probe, root>>

\* The deferred function runs and Call returns
CallReturn(p) ==
    /\ calls[p].pc = "deferred"
    /\ \E r \in RecoverValues(calls[p].panic) :
          calls' = [calls EXCEPT ![p] = Deferred(@, r)]
    /\ UNCHANGED <<Endpoints, probe, root>>

\* Every step of a call by caller p
CallSteps(p) ==
    \/ CallStart(p)
    \/ HTTPProxyBegin(p)
    \/ HTTPProxyEnd(p)
    \/ LambdaProxyBegin(p)
    \/ LambdaProxyEnd(p)
    \/ CallHook(p)
    \/ CallInspect(p)
    \/ CallInvoke(p)
    \/ CallNormalize(p)
    \/ CallReturn(p)

(***************************************************************************)
(* Specifications                                                          *)
(***************************************************************************)
NoProbe ==
    [pattern |-> <<>>, method |-> <<>>, path |-> <<>>, done |-> FALSE,
     result |-> [pathVars |-> NoPathVars, match |-> FALSE]]

\* Spec: a registry is built from the fixture, then one caller is served
Init ==
    /\ Endpoints = <<>>
    /\ calls = [p \in Callers |-> IdleCall]
    /\ probe = NoProbe
    /\ root = Background

Next ==
    \/ Register
    \/ CallStart(1)
    \/ HTTPProxyBegin(1)
    \/ HTTPProxyEnd(1)
    \/ LambdaProxyBegin(1)
    \/ LambdaProxyEnd(1)
    \/ CallHook(1)
    \/ CallInspect(1)
    \/ CallInvoke(1)
    \/ CallNormalize(1)
    \/ CallReturn(1)

Spec == Init /\ [][Next]_vars

\* HandlerSpec: the registry holds one endpoint, of any handler shape and hook
\* list, and one caller is served
HandlerInit ==
    /\ \E h \in Handlers, hooks \in HookLists :
          Endpoints = <<Endpoint(GET \o <<"/", "a", "/", "{", "i", "}">>, h, hooks)>>
    /\ calls = [p \in Callers |-> IdleCall]
    /\ probe = NoProbe
    /\ root = Background

HandlerNext ==
    \/ CallStart(1)
    \/ HTTPProxyBegin(1)
    \/ HTTPProxyEnd(1)
    \/ LambdaProxyBegin(1)
    \/ LambdaProxyEnd(1)
    \/ CallHook(1)
    \/ CallInspect(1)
    \/ CallInvoke(1)
    \/ CallNormalize(1)
    \/ CallReturn(1)

HandlerSpec == HandlerInit /\ [][HandlerNext]_vars

\* ConcurrentSpec: the registry is fixed, then the callers run API.Call from
\* the same root context, their steps interleaved in any order
ConcurrentRegistry ==
    <<Endpoint(GET \o <<"/", "a", "/", "{", "i", "}">>, testPathVarHandler,
               <<"middlewareHook", "authHook">>),
      Endpoint(GET \o <<"/", "{", "v", "}">>, rootHandler, <<>>)>>

ConcurrentInit ==
    /\ Endpoints = ConcurrentRegistry
    /\ calls = [p \in Callers |-> IdleCall]
    /\ probe = NoProbe
    /\ root = Background

ConcurrentNext ==
    \E p \in Callers :
        \/ CallStart(p)
        \/ CallHook(p)
        \/ CallInspect(p)
        \/ CallInvoke(p)
        \/ CallNormalize(p)
        \/ CallReturn(p)

ConcurrentSpec == ConcurrentInit /\ [][ConcurrentNext]_vars

\* MethodsSpec: a registry of up to MaxRoutes routes, as the registrations of
\* TestEndpoints left it, is asked for the methods of a path, twice
RoutePool ==
    {GET \o <<"/", "a">>,
     PUT \o <<"/", "a">>,
     DELETE \o <<"/", "b">>,
     DELETE \o <<"/", "a", "/", "{", "i", "}">>,
     GET \o <<"/", "{", "v", "}">>}

RouteRegistries ==
    UNION {[1..n -> {Endpoint(pattern, testEndpointHandler, <<>>) : pattern \in RoutePool}] :
              n \in 0..MaxRoutes}

MethodsInit ==
    /\ Endpoints \in RouteRegistries
    /\ calls = [p \in Callers |-> IdleCall]
    /\ probe = NoProbe
    /\ root = Background

MethodsNext ==
    \/ GetMethods(1)
    \/ GetMethodsAgain(1)

MethodsSpec == MethodsInit /\ [][MethodsNext]_vars

\* MatchSpec: PathMatcher.Match applied once to a pattern and a (method, path)
PathChars == {"/", "a", "b"}

ProbePaths == UNION {[1..n -> PathChars] : n \in 0..MaxPathLen}

PatternPool ==
    {GET \o <<"/", "a">>,
     GET \o <<"/", "{", "v", "}">>,
     GET \o <<"/", "a", "/", "{", "v", "}">>,
     GET \o <<"/", "{", "v", "}", "/", "b">>,
     GET \o <<"/", "{", "v", "}", "/", "{", "w", "}">>,
     PUT \o <<"/", "a", "/", "b">>,
     PUT \o <<"/", "a", "/">>,
     PUT \o <<"/">>}

MatchInit ==
    /\ Endpoints = <<>>
    /\ calls = [p \in Callers |-> IdleCall]
    /\ \E pattern \in PatternPool, method \in Methods, path \in ProbePaths :
          probe = [pattern |-> pattern, method |-> method, path |-> path,
                   done |-> FALSE,
                   result |-> [pathVars |-> NoPathVars, match |-> FALSE]]
    /\ root = Background

DoMatch ==
    /\ ~probe.done
    /\ probe' = [probe EXCEPT !.done = TRUE,
                              !.result = Match(NewPathMatcher(probe.pattern),
                                               probe.method, probe.path)]
    /\ UNCHANGED <<Endpoints, calls, root>>

MatchNext == DoMatch

MatchSpec == MatchInit /\ [][MatchNext]_vars

(***************************************************************************)
(* Properties                                                              *)
(***************************************************************************)
\* The call has returned to its caller (and a proxy may have responded)
Returned(c) == c.pc \in {"returned", "responded"}

\* The indices of the endpoints whose pattern matches (method, path)
Matching(method, path) ==
    {i \in 1..Len(Endpoints) : Match(Endpoints[i].pathMatcher, method, path).match}

\* The events of a trace that are invocations of the handler
HandlerInvoked(c) == \E j \in 1..Len(c.trace) : c.trace[j].ev = "handler"

\* C1: MatchEndpoint returns the endpoint of smallest registration index whose
\* pattern matches (method, path), with that endpoint's bindings, and no
\* endpoint only when no registered pattern matches.
C1_FirstMatchWins ==
    \A p \in Callers :
        LET c == calls[p]
            M == Matching(c.reqMethod, c.reqPath)
        IN  c.called =>
                IF M = {}
                THEN c.endpoint = 0 /\ c.pathVars = NoPathVars
                ELSE /\ c.endpoint \in M
                     /\ \A i \in M : c.endpoint <= i
                     /\ c.pathVars = Match(Endpoints[c.endpoint].pathMatcher,
                                           c.reqMethod, c.reqPath).pathVars

\* C1 witness: two different endpoints match the request, the first registered
\* is returned and its variable is bound
C1_Witness ==
    \E p \in Callers :
        LET c == calls[p]
        IN  /\ c.called
            /\ Matching(c.reqMethod, c.reqPath) = {1, 2}
            /\ Endpoints[1] # Endpoints[2]
            /\ c.endpoint = 1
            /\ c.pathVars = (<<"v">> :> <<"a">>)

\* C6: when no registered endpoint matches, Call returns (nil, ErrNotFound) and
\* invokes no hook and no handler.
C6_NotFound ==
    \A p \in Callers :
        LET c == calls[p]
        IN  (c.called /\ Matching(c.reqMethod, c.reqPath) = {}) =>
                /\ c.trace = <<>>
                /\ c.pc \in {"deferred", "returned", "responded"}
                /\ Returned(c) => (c.out = NilIface /\ c.err = ErrNotFound)

\* C6 witness: a call on a non-empty registry came back with ErrNotFound
C6_Witness ==
    \E p \in Callers :
        LET c == calls[p]
        IN  /\ c.called /\ c.pc = "returned"
            /\ Len(Endpoints) = 2
            /\ Matching(c.reqMethod, c.reqPath) = {}
            /\ c.err = ErrNotFound /\ c.out = NilIface

\* C3: the matched endpoint's hooks run one at a time in registration order,
\* after the route match and before the handler; once hook i returns an error
\* no later hook and no handler runs and Call returns (nil, that error).
C3_HookOrderAndAbort ==
    \A p \in Callers :
        LET c == calls[p]
            hooks == IF c.endpoint = 0 THEN <<>> ELSE EndpointOf(c).PreRequestHooks
        IN  /\ c.trace # <<>> => (c.called /\ c.endpoint # 0)
            /\ \A j \in 1..Len(c.trace) :
                  IF c.trace[j].ev = "hook"
                  THEN /\ j <= Len(hooks)
                       /\ c.trace[j].i = j
                       /\ c.trace[j].name = hooks[j]
                  ELSE j = Len(hooks) + 1
            /\ (c.trace # <<>> /\ c.trace[1].ev = "hook") =>
                  ContextPathVars(c.trace[1].ctx) = c.pathVars
            /\ c.abortedBy # 0 =>
                  /\ Len(c.trace) = c.abortedBy
                  /\ c.trace[c.abortedBy].ev = "hook"
                  /\ c.pc \in {"deferred", "returned", "responded"}
                  /\ Returned(c) =>
                        (c.out = NilIface /\ c.err = HookError(hooks[c.abortedBy]))

\* C3 witness: the first of two hooks failed; the call came back with its error
\* and neither the second hook nor the handler ran
C3_Witness ==
    \E p \in Callers :
        LET c == calls[p]
        IN  /\ c.pc = "returned" /\ c.endpoint # 0
            /\ Len(EndpointOf(c).PreRequestHooks) = 2
            /\ c.abortedBy = 1
            /\ Len(c.trace) = 1
            /\ c.err = HookError(EndpointOf(c).PreRequestHooks[1])

\* C2: in a call that matched an endpoint, a panic raised by a hook, by the
\* decoding, by the handler or by the normalisation (a runtime error or an
\* explicit non-nil panic value) is recovered inside Call, which returns
\* (nil, ErrInternal); no panic, of any value, leaves Call.
C2_FaultContainment ==
    \A p \in Callers :
        LET c == calls[p]
        IN  /\ ~c.escaped
            /\ (c.endpoint # 0 /\ Returned(c) /\ c.panic \in {"runtimeError", "explicit"}) =>
                  (c.out = NilIface /\ c.err = ErrInternal)

\* C2 witness: a nil handler value made Call panic and Call returned
\* (nil, ErrInternal)
C2_Witness ==
    \E p \in Callers :
        LET c == calls[p]
        IN  /\ c.pc = "returned" /\ c.endpoint # 0
            /\ EndpointOf(c).Handler.kind = "nil"
            /\ c.panic = "runtimeError"
            /\ c.out = NilIface /\ c.err = ErrInternal

\* C4: the pair Call returns is (data, nil) or (nil, error): a non-nil error
\* always comes with a nil value.
C4_OutcomeShape ==
    \A p \in Callers :
        LET c == calls[p]
        IN  (c.called /\ Returned(c)) => (c.err # NilIface => c.out = NilIface)

\* C5: a handler with exactly one declared result that returns nil gives
\* (nil, nil); one that returns an error gives (nil, that error); any other
\* value gives (that value, nil).
C5_SingleResult ==
    \A p \in Callers :
        LET c == calls[p]
        IN  (Returned(c) /\ c.panic = NoPanic /\ Len(c.resultValues) = 1) =>
                LET rv == c.resultValues[1]
                IN  IF rv.null THEN c.out = NilIface /\ c.err = NilIface
                    ELSE IF ImplementsError(rv.val)
                         THEN c.out = NilIface /\ c.err = rv.val
                         ELSE c.out = rv.val /\ c.err = NilIface

\* The number of parameters of kind k a handler declares
CountKind(h, k) == Cardinality({i \in 1..Len(h.in) : h.in[i] = k})

\* More than two parameters, or two of the same kind
InvalidShape(h) ==
    /\ h.kind = "func"
    /\ \/ Len(h.in) > 2
       \/ CountKind(h, "ctx") >= 2
       \/ CountKind(h, "custom") >= 2

\* C7: for a handler with more than two parameters, two context parameters or
\* two custom parameters, a call that reaches the handler inspection returns
\* (nil, ErrInternal), whatever the body, and never invokes the handler.
C7_InvalidShape ==
    \A p \in Callers :
        LET c == calls[p]
        IN  (c.inspected /\ InvalidShape(EndpointOf(c).Handler)) =>
                /\ ~HandlerInvoked(c)
                /\ c.pc \in {"deferred", "returned", "responded"}
                /\ c.out = NilIface /\ c.err = ErrInternal

\* C7 witness: testBadHandler (two custom parameters) with a well-formed body
C7_Witness ==
    \E p \in Callers :
        LET c == calls[p]
        IN  /\ c.pc = "returned" /\ c.inspected
            /\ EndpointOf(c).Handler = testBadHandler
            /\ c.input = "valid"
            /\ c.err = ErrInternal /\ c.out = NilIface

\* C8: when the handler takes a custom parameter and the body does not decode,
\* Call returns (nil, the decoder's error), which is neither ErrInternal nor
\* ErrNotFound, and the handler is never invoked.
C8_DecodeFailure ==
    \A p \in Callers :
        LET c == calls[p]
        IN  (c.takesCustom /\ c.pc # "invoke" /\ c.input \in {"truncated", "nil"}) =>
                /\ ~HandlerInvoked(c)
                /\ c.pc \in {"deferred", "returned", "responded"}
                /\ c.out = NilIface /\ c.err = SyntaxError
                /\ c.err \notin {ErrInternal, ErrNotFound, NilIface}

\* C8 witness: testEndpointHandler called with a truncated body
C8_Witness ==
    \E p \in Callers :
        LET c == calls[p]
        IN  /\ c.pc = "returned" /\ c.endpoint # 0
            /\ EndpointOf(c).Handler = testEndpointHandler
            /\ c.input = "truncated"
            /\ c.err = SyntaxError /\ c.out = NilIface
            /\ ~HandlerInvoked(c)

\* C9: for a non-OPTIONS request through HTTPProxy or LambdaProxy that ends in
\* an error, the status is 404 when no endpoint matched, 400 when the body
\* failed to decode, the coded error's status when the handler returned an
\* APIError, and 500 otherwise.
C9_StatusMapping ==
    \A p \in Callers :
        LET c == calls[p]
        IN  (c.pc = "responded" /\ c.called /\ c.err # NilIface) =>
                c.status = IF c.endpoint = 0 THEN 404
                           ELSE IF c.decodeFailed THEN 400
                           ELSE IF HandlerInvoked(c) /\ c.panic = NoPanic
                                   /\ c.err.t = "*APIError" /\ ~c.err.isNil
                                THEN c.err.code
                           ELSE 500

\* C10: Match succeeds exactly when the method equals the pattern's, the path
\* has as many segments as the pattern, every literal segment equals the input
\* segment at its position and every variable segment faces a non-empty one;
\* on success the bindings map each variable name to the input segment at its
\* position and nothing else, on failure there are no bindings.
C10_RouteMatching ==
    probe.done =>
        LET pm == NewPathMatcher(probe.pattern)
            parts == Split(probe.path)
            variables == {i \in 1..Len(pm.segments) : pm.segments[i].kind = "variable"}
            ok == /\ probe.method = pm.Method
                  /\ Len(parts) = Len(pm.segments)
                  /\ \A i \in 1..Len(pm.segments) :
                        IF i \in variables THEN parts[i] # <<>>
                        ELSE parts[i] = pm.segments[i].value
        IN  /\ probe.result.match = ok
            /\ ok => /\ DOMAIN probe.result.pathVars = {pm.segments[i].value : i \in variables}
                     /\ \A i \in variables :
                           probe.result.pathVars[pm.segments[i].value] = parts[i]
            /\ ~ok => probe.result.pathVars = NoPathVars

\* C10 witness: GET/a/{v} against GET /a/b matched and bound v to b
C10_Witness ==
    /\ probe.done
    /\ probe.pattern = GET \o <<"/", "a", "/", "{", "v", "}">>
    /\ probe.method = GET
    /\ probe.path = <<"/", "a", "/", "b">>
    /\ probe.result.match
    /\ probe.result.pathVars = (<<"v">> :> <<"b">>)

\* The indices of the endpoints whose pattern shape matches path
ShapeMatching(path) ==
    {i \in 1..Len(Endpoints) : MatchPath(Endpoints[i].pathMatcher, path)}

\* The k-th smallest element of a set of indices
Kth(S, k) == CHOOSE i \in S : Cardinality({j \in S : j < i}) = k - 1

\* C11: GetMethodsForPath returns one method token per endpoint whose pattern
\* shape matches the path, whatever its method, in registration order and
\* without deduplication, and the same list when asked again; with GET/a and
\* PUT/a registered among endpoints that do not match /a, the list is GET, PUT.
C11_MethodsForPath ==
    \A p \in Callers :
        LET c == calls[p]
            M == ShapeMatching(c.reqPath)
        IN  /\ c.pc \in {"listed", "relisted"} =>
                /\ Len(c.allowMethods) = Cardinality(M)
                /\ \A k \in 1..Len(c.allowMethods) :
                      c.allowMethods[k] = Endpoints[Kth(M, k)].pathMatcher.Method
            /\ c.pc = "relisted" => c.allowAgain = c.allowMethods
            /\ (/\ c.pc \in {"listed", "relisted"}
                /\ c.reqPath = <<"/", "a">>
                /\ \E i, j \in 1..Len(Endpoints) :
                      /\ i < j
                      /\ Endpoints[i].Path = GET \o <<"/", "a">>
                      /\ Endpoints[j].Path = PUT \o <<"/", "a">>
                      /\ M = {i, j}) =>
                  c.allowMethods = <<GET, PUT>>

\* C11 witness: the same path registered twice for GET after a route that does
\* not match: GET is listed twice, on both calls
C11_Witness ==
    \E p \in Callers :
        LET c == calls[p]
        IN  /\ c.pc = "relisted"
            /\ Len(Endpoints) = 3
            /\ ShapeMatching(c.reqPath) = {2, 3}
            /\ Endpoints[2] = Endpoints[3]
            /\ c.allowMethods = <<GET, GET>>
            /\ c.allowAgain = <<GET, GET>>

\* The trace entries of call c whose observer was handed a context: every
\* hook, and the handler when it takes one
Observers(c) ==
    {k \in 1..Len(c.trace) : c.trace[k].ev = "hook" \/ c.takesContext}

\* after is before or a child derived from it that binds no path variables anew
KeepsPathVars(before, after) ==
    /\ Len(after) >= Len(before)
    /\ SubSeq(after, 1, Len(before)) = before
    /\ \A i \in (Len(before) + 1)..Len(after) : after[i].key # "contextPathVars"

\* C12 as stated: with the callers' calls interleaved from the same root
\* context, every hook and the handler of a call read through ContextPathVars
\* exactly the bindings of that call's own match, and the root context reports
\* no path variables.
C12_ContextIsolation ==
    /\ \A p \in Callers :
          \A k \in Observers(calls[p]) :
              ContextPathVars(calls[p].trace[k].ctx) = calls[p].pathVars
    /\ ContextPathVars(root) = NoPathVars

\* C12, amended: with the callers' calls interleaved from the same root
\* context, a hook or handler of a call reads through ContextPathVars exactly
\* the bindings of that call's own match as long as every earlier hook of that
\* call handed back the context it was given or a child of it; after a hook
\* of that call substituted a fresh context it reads that context's bindings
\* (none), never those of the other call; the root context stays as it was
\* and reports no path variables.
C12_ContextIsolationAmended ==
    /\ \A p \in Callers :
          LET c == calls[p]
          IN  \A k \in Observers(c) :
                  /\ (\A j \in 1..(k - 1) :
                          KeepsPathVars(c.trace[j].ctx, c.trace[j + 1].ctx)) =>
                        ContextPathVars(c.trace[k].ctx) = c.pathVars
                  /\ ContextPathVars(c.trace[k].ctx) \in {c.pathVars, NoPathVars}
    /\ root = Background
    /\ ContextPathVars(root) = NoPathVars

\* C12 witness: both calls are in flight on different routes; the first has
\* run its two hooks, the second its handler, and each read its own bindings
C12_Witness ==
    /\ calls[1].pc = "invoke"
    /\ calls[2].pc = "normalize"
    /\ calls[1].pathVars # NoPathVars
    /\ calls[2].pathVars # NoPathVars
    /\ calls[1].pathVars # calls[2].pathVars
    /\ Len(calls[1].trace) = 2
    /\ Len(calls[2].trace) = 1
    /\ calls[2].trace[1].ev = "handler"
    /\ \A k \in 1..2 : ContextPathVars(calls[1].trace[k].ctx) = calls[1].pathVars
    /\ ContextPathVars(calls[2].trace[1].ctx) = calls[2].pathVars

\* C13: the EndpointInput passed to hook i+1 carries the method, path, context
\* and body of the replacement hook i returned; the first hook receives the
\* caller's values with the context already carrying the matched path
\* variables; the handler receives the context and decodes the body of the
\* replacement the last hook returned.
C13_ReplacementThreaded ==
    \A p \in Callers :
        LET c == calls[p]
            n == Len(c.reps)
        IN  /\ (Len(c.trace) >= 1 /\ c.trace[1].ev = "hook") =>
                  /\ c.trace[1].method = c.reqMethod
                  /\ c.trace[1].path = c.reqPath
                  /\ c.trace[1].input = c.reqInput
                  /\ c.trace[1].ctx \in {SetContextPathVars(b, c.pathVars) :
                                            b \in {root, Background,
                                                   SetContextLambdaResponse(
                                                       SetContextLambdaRequest(Background, "apr"),
                                                       "response")}}
                  /\ ContextPathVars(c.trace[1].ctx) = c.pathVars
            /\ \A i \in 1..n :
                  i + 1 <= Len(c.trace) =>
                      LET e == c.trace[i + 1]
                      IN  IF e.ev = "hook"
                          THEN /\ e.method = c.reps[i].Method
                               /\ e.path = c.reps[i].Path
                               /\ e.ctx = c.reps[i].Ctx
                               /\ e.input = c.reps[i].Input
                          ELSE /\ i = n
                               /\ c.takesContext => e.ctx = c.reps[i].Ctx
                               /\ c.takesCustom =>
                                     /\ e.input = c.reps[i].Input
                                     /\ Unmarshal(c.reps[i].Input) = NilIface
            /\ (c.decodeFailed /\ n >= 1) => Unmarshal(c.reps[n].Input) # NilIface

\* C13 witness: the caller's body does not decode; the first hook hands back a
\* fresh context, the second that context with another body; the handler is
\* invoked with the second hook's context and body
C13_Witness ==
    \E p \in Callers :
        LET c == calls[p]
        IN  /\ c.pc = "returned"
            /\ c.takesContext /\ c.takesCustom
            /\ Unmarshal(c.reqInput) # NilIface
            /\ Len(c.reps) = 2 /\ Len(c.trace) = 3
            /\ c.reps[1].Ctx # c.trace[1].ctx
            /\ ~HasValue(c.reps[1].Ctx, "contextPathVars")
            /\ c.reps[2].Input # c.reqInput
            /\ c.trace[2].ctx = c.reps[1].Ctx
            /\ c.trace[3].ev = "handler"
            /\ c.trace[3].ctx = c.reps[2].Ctx
            /\ c.trace[3].input = c.reps[2].Input

\* The route match of the caller's own method and path
OriginalMatch(c) == MatchEndpoint(Endpoints, c.reqMethod, c.reqPath)

\* C14: the endpoint MatchEndpoint selected for the caller's original method
\* and path is the one whose hooks and handler run, and the path variables stay
\* those of that match, also after a hook returned a replacement whose method
\* or path matches a different endpoint or none: Call does not match again.
C14_RoutingFixed ==
    \A p \in Callers :
        LET c == calls[p]
            m == OriginalMatch(c)
        IN  (c.called /\ m.endpoint # 0) =>
                /\ c.endpoint = m.endpoint
                /\ c.pathVars = m.pathVars
                /\ \A k \in 1..Len(c.trace) :
                      LET e == c.trace[k]
                      IN  /\ e.ev = "hook" =>
                                /\ e.i = k
                                /\ k <= Len(Endpoints[m.endpoint].PreRequestHooks)
                                /\ e.name = Endpoints[m.endpoint].PreRequestHooks[k]
                          /\ e.ev = "handler" =>
                                /\ k = Len(Endpoints[m.endpoint].PreRequestHooks) + 1
                                /\ e.name = Endpoints[m.endpoint].Handler.name
                          /\ (/\ k \in Observers(c)
                              /\ \A j \in 1..(k - 1) :
                                    KeepsPathVars(c.trace[j].ctx, c.trace[j + 1].ctx)) =>
                                ContextPathVars(e.ctx) = m.pathVars

\* C14 witness: the caller's GET /b matched the first endpoint and bound a path
\* variable; its hook handed back PUT /a, which the second endpoint matches;
\* the first endpoint's handler ran and read the bindings of the original match
C14_Witness ==
    \E p \in Callers :
        LET c == calls[p]
        IN  /\ c.pc = "returned"
            /\ Len(Endpoints) = 2
            /\ c.endpoint = 1
            /\ c.pathVars # NoPathVars
            /\ Len(c.reps) = 1
            /\ MatchEndpoint(Endpoints, c.reps[1].Method, c.reps[1].Path).endpoint = 2
            /\ Len(c.trace) = 2
            /\ c.trace[2].ev = "handler"
            /\ c.trace[2].name = Endpoints[1].Handler.name
            /\ c.takesContext
            /\ ContextPathVars(c.trace[2].ctx) = c.pathVars

\* C14 witness, second case: the hook handed back a method and path that no
\* endpoint matches, and the matched endpoint's handler ran all the same
C14_WitnessNoRoute ==
    \E p \in Callers :
        LET c == calls[p]
        IN  /\ c.pc = "returned"
            /\ c.endpoint # 0
            /\ Len(c.reps) >= 1
            /\ MatchEndpoint(Endpoints, c.reps[Len(c.reps)].Method,
                             c.reps[Len(c.reps)].Path).endpoint = 0
            /\ c.trace[Len(c.trace)].ev = "handler"
            /\ c.err # ErrNotFound

=============================================================================
